---- MODULE Spec2Model ----
(***************************************************************************)
(* State-machine model of the e-commerce backend controllers:              *)
(*   - settings.model.js / settings.controller.js (src/unnamed/part_000)   *)
(*   - product.controller.js                                               *)
(*   - payment.controller.js (src/unnamed/part_001)                        *)
(* Each subsystem has its own specification over the shared variables; a   *)
(* subsystem that a specification does not exercise keeps its initial      *)
(* value.                                                                  *)
(***************************************************************************)
EXTENDS Integers, Sequences, FiniteSets, TLC

VARIABLES
    settingsColl,   \* the Settings collection, in natural (insertion) order
    handlers,       \* settings request handlers: kind, position, loaded document
    products,       \* the Product collection: product id -> document
    storage,        \* object storage: the public ids of the stored images
    req,            \* the product request being handled, or the last one handled
    payments,       \* the PaymentIntent collection: payment id -> document
    pay,            \* the last payment administration request and its response
    listing         \* the listing request that was handled, and its response

vars == <<settingsColl, handlers, products, storage, req, payments, pay, listing>>

settingsVars == <<settingsColl, handlers>>

productVars == <<products, storage, req>>

paymentVars == <<payments, pay>>

otherVars == <<paymentVars, listing>>

(***************************************************************************)
(* JavaScript values.  An optional request field is a sequence: <<>> is    *)
(* undefined (absent), <<v>> is the value v.                               *)
(***************************************************************************)
Opt(S) == {<<>>} \cup {<<v>> : v \in S}

Provided(x) == x # <<>>

\* JS truthiness of an optional string: undefined and "" are falsy.
Truthy(x) == x # <<>> /\ x[1] # ""

(***************************************************************************)
(* Settings: schema (settings.model.js) and controller (part_000)          *)
(***************************************************************************)
NumHandlers == 2

HandlerIds == 1..NumHandlers

SettingsFields ==
    {"siteName", "siteDescription", "contactEmail", "contactPhone",
     "currency", "timezone", "maintenanceMode"}

StringFields == SettingsFields \ {"maintenanceMode"}

CurrencyEnum == {"USD", "EUR", "GBP", "JPY", "PKR"}

\* schema defaults: the document that create({}) stores
DefaultSettings ==
    [siteName        |-> "E-commerce Store",
     siteDescription |-> "Welcome to our online store",
     contactEmail    |-> "admin@example.com",
     contactPhone    |-> "+1234567890",
     currency        |-> "USD",
     timezone        |-> "UTC",
     maintenanceMode |-> FALSE]

\* String.prototype.trim on the strings the requests carry
Trim(s) ==
    CASE s = " X "     -> "X"
      [] s = " A@B.C " -> "A@B.C"
      [] s = " "       -> ""
      [] OTHER         -> s

\* String.prototype.toLowerCase on the strings the requests carry
LowerCase(s) ==
    CASE s = "A@B.C" -> "a@b.c"
      [] s = "X"     -> "x"
      [] OTHER       -> s

\* the schema setters of a path: trim, lowercase
SchemaSet(f, v) ==
    CASE f \in {"siteName", "siteDescription", "contactPhone"} -> Trim(v)
      [] f = "contactEmail" -> LowerCase(Trim(v))
      [] OTHER -> v

\* schema validation run by save(): the currency enum
SchemaValid(doc) == doc.currency \in CurrencyEnum

\* request bodies of updateSettings
Partials ==
    [siteName        : Opt({"", " X "}),
     siteDescription : Opt({"D"}),
     contactEmail    : Opt({" A@B.C "}),
     contactPhone    : Opt({"1"}),
     currency        : Opt({"", "EUR", "XXX"}),
     timezone        : Opt({"PKT"}),
     maintenanceMode : Opt({TRUE, FALSE})]

NoPartial ==
    [siteName |-> <<>>, siteDescription |-> <<>>, contactEmail |-> <<>>,
     contactPhone |-> <<>>, currency |-> <<>>, timezone |-> <<>>,
     maintenanceMode |-> <<>>]

\* bodies used when handlers interleave
ConcPartials ==
    {NoPartial,
     [NoPartial EXCEPT !.siteName = <<" X ">>],
     [NoPartial EXCEPT !.maintenanceMode = <<TRUE>>]}

\* the condition under which updateSettings assigns a field
Assigns(p, f) ==
    IF f = "maintenanceMode" THEN Provided(p[f]) ELSE Truthy(p[f])

\* variant: every provided field is assigned, also a falsy one
ApplyPartialProvided(doc, p) ==
    [f \in SettingsFields |->
        IF Provided(p[f]) THEN SchemaSet(f, p[f][1]) ELSE doc[f]]

\* the assignments of updateSettings on the loaded document
ApplyPartial(doc, p) ==
    [f \in SettingsFields |->
        IF Assigns(p, f) THEN SchemaSet(f, p[f][1]) ELSE doc[f]]

\* document.save(): writes the paths whose value differs from the loaded one
SaveModified(stored, loaded, edited) ==
    [f \in SettingsFields |->
        IF edited[f] # loaded[f] THEN edited[f] ELSE stored[f]]

IdleHandler == [kind |-> "none", pc |-> "idle", idx |-> 0, body |-> NoPartial,
                doc |-> DefaultSettings, status |-> 0]

HandlerKinds == {"getSettings", "updateSettings", "getPublicConfig"}

\* the response is sent: the handler's locals are dropped
Responded(hs, code) ==
    [hs EXCEPT !.pc = "done", !.status = code, !.doc = DefaultSettings,
               !.body = NoPartial]

InitSettings ==
    /\ settingsColl = <<>>
    /\ handlers = [h \in HandlerIds |-> IdleHandler]

\* a request with body p arrives at a handler: the controller calls
\* Settings.getSettings()
CallHandler(h, k, p) ==
    /\ handlers[h].pc \in {"idle", "done"}
    /\ handlers' = [handlers EXCEPT ![h] =
            [IdleHandler EXCEPT !.kind = k, !.pc = "findOne", !.body = p]]
    /\ UNCHANGED <<settingsColl, productVars, otherVars>>

\* const settings = await this.findOne(); if (settings) return settings;
findOne(h) ==
    /\ handlers[h].pc = "findOne"
    /\ IF Len(settingsColl) > 0
         THEN handlers' = [handlers EXCEPT ![h].pc = "loaded", ![h].idx = 1,
                                           ![h].doc = settingsColl[1]]
         ELSE handlers' = [handlers EXCEPT ![h].pc = "create"]
    /\ UNCHANGED <<settingsColl, productVars, otherVars>>

\* return await this.create({});
create(h) ==
    /\ handlers[h].pc = "create"
    /\ settingsColl' = Append(settingsColl, DefaultSettings)
    /\ handlers' = [handlers EXCEPT ![h].pc = "loaded",
                                    ![h].idx = Len(settingsColl) + 1,
                                    ![h].doc = DefaultSettings]
    /\ UNCHANGED <<productVars, otherVars>>

getSettings(h) ==
    /\ handlers[h].pc = "loaded"
    /\ handlers[h].kind = "getSettings"
    /\ handlers' = [handlers EXCEPT ![h] = Responded(handlers[h], 200)]
    /\ UNCHANGED <<settingsColl, productVars, otherVars>>

getPublicConfig(h) ==
    /\ handlers[h].pc = "loaded"
    /\ handlers[h].kind = "getPublicConfig"
    /\ handlers' = [handlers EXCEPT ![h] = Responded(handlers[h], 200)]
    /\ UNCHANGED <<settingsColl, productVars, otherVars>>

updateSettings(h) ==
    /\ handlers[h].pc = "loaded"
    /\ handlers[h].kind = "updateSettings"
    /\ LET edited == ApplyPartial(handlers[h].doc, handlers[h].body)
           i == handlers[h].idx
       IN IF SchemaValid(edited)
            THEN /\ settingsColl' = [settingsColl EXCEPT
                        ![i] = SaveModified(settingsColl[i], handlers[h].doc, edited)]
                 /\ handlers' = [handlers EXCEPT ![h] = Responded(handlers[h], 200)]
            ELSE /\ handlers' = [handlers EXCEPT ![h] = Responded(handlers[h], 500)]
                 /\ UNCHANGED settingsColl
    /\ UNCHANGED <<productVars, otherVars>>

\* the bodies of a request of kind k, drawn from the set P for updateSettings
BodiesOf(k, P) == IF k = "updateSettings" THEN P ELSE {NoPartial}

\* handlers interleave at every await
NextSettings ==
    \E h \in HandlerIds :
        \/ \E k \in HandlerKinds : \E p \in BodiesOf(k, ConcPartials) :
                CallHandler(h, k, p)
        \/ findOne(h)
        \/ create(h)
        \/ getSettings(h)
        \/ getPublicConfig(h)
        \/ updateSettings(h)

\* one request at a time, all of them on the first handler
NextSettingsSeq ==
    \/ \E k \in HandlerKinds : \E p \in BodiesOf(k, Partials) : CallHandler(1, k, p)
    \/ findOne(1)
    \/ create(1)
    \/ getSettings(1)
    \/ getPublicConfig(1)
    \/ updateSettings(1)


(***************************************************************************)
(* Products: product.controller.js                                         *)
(* Requests are handled one at a time; a request that awaits the object    *)
(* storage or the store is a sequence of steps of req.                     *)
(***************************************************************************)
MaxImages == 3

MaxFiles == 1

MaxKept == 1

Users == {"u1", "u2"}

\* req.user?._id: <<>> when the request is not authenticated
Callers == Opt(Users)

\* every request addresses one document and no handler reads another one:
\* the collection holds at most one product at a time
ProductIds == {1}

\* identifiers a request can carry: 0 is a malformed id, 2 a well-formed id
\* that no product has
RequestIds == {0, 1, 2}

ImageIds == 1..MaxImages

isValidObjectId(id) == id > 0

\* parseFloat on the numeric strings the requests carry
parseFloat(s) ==
    CASE s = "50"  -> 50
      [] s = "80"  -> 80
      [] s = "100" -> 100
      [] s = "120" -> 120

\* JavaScript numbers: an integer, NaN or Infinity
Num(n) == [k |-> "int", v |-> n]

NaN == [k |-> "NaN", v |-> 0]

Infinity == [k |-> "Infinity", v |-> 0]

\* parseInt on the strings the requests carry
parseInt(s) ==
    CASE s = "5"   -> Num(5)
      [] s = "7.5" -> Num(7)
      [] s = "0"   -> Num(0)
      [] s = "1"   -> Num(1)
      [] s = "2"   -> Num(2)
      [] s = "3"   -> Num(3)
      [] s = "-1"  -> Num(0 - 1)
      [] OTHER     -> NaN

\* mongoose's cast of a string to a Boolean path
CastBoolean(s) == s = "true"

\* the raw existingImages field: its JSON text is classified by what
\* JSON.parse and the array spread make of it
EIUndefined == [t |-> "undefined", items |-> <<>>]

EIEmptyString == [t |-> "empty", items |-> <<>>]

EIInvalidJSON == [t |-> "invalid", items |-> <<>>]

EIScalarJSON == [t |-> "scalar", items |-> <<>>]

EIArray(items) == [t |-> "array", items |-> items]

\* lines 246-256: finalImages after the existingImages block
KeepExisting(ei) ==
    IF ei.t \in {"undefined", "empty"} THEN <<>>
    ELSE IF ei.t = "array" THEN ei.items
    ELSE <<>>

NoBody ==
    [name |-> <<>>, description |-> <<>>, price |-> <<>>, category |-> <<>>,
     stock |-> <<>>, is_flash_sale |-> <<>>, flash_sale_price |-> <<>>,
     existingImages |-> EIUndefined, is_featured |-> <<>>, files |-> 0]

NoDoc ==
    [owner |-> "", name |-> "", description |-> "", category |-> "",
     price |-> 0, stock |-> 0, is_featured |-> FALSE, is_flash_sale |-> FALSE,
     flash_sale_price |-> <<>>, flash_sale_end |-> <<>>, images |-> <<>>]

IdleReq ==
    [op |-> "none", pc |-> "idle", status |-> 0, caller |-> <<>>, pid |-> 0,
     body |-> NoBody, doc |-> NoDoc, imgs |-> <<>>, uploaded |-> <<>>]

InitProducts ==
    /\ products = <<>>
    /\ storage = {}
    /\ req = IdleReq

\* the part of a request body that req keeps once the handler has read the
\* body (lines 17-18, 217-218): the price, the flash sale fields, the
\* retained image list and the number of files
Kept(b) ==
    [NoBody EXCEPT !.price = b.price,
                   !.is_flash_sale = b.is_flash_sale,
                   !.flash_sale_price = b.flash_sale_price,
                   !.existingImages = b.existingImages,
                   !.files = b.files]

\* the response of a request: the handler's locals are dropped
Reply(op, caller, pid, body, code) ==
    [op |-> op, pc |-> "done", status |-> code, caller |-> caller, pid |-> pid,
     body |-> Kept(body), doc |-> NoDoc, imgs |-> <<>>, uploaded |-> <<>>]

Finish(code) == Reply(req.op, req.caller, req.pid, req.body, code)

Ready == req.pc \in {"idle", "done"}

\* line 20
MissingRequired(b) ==
    \/ ~Truthy(b.name) \/ ~Truthy(b.description) \/ ~Truthy(b.price)
    \/ ~Truthy(b.category) \/ ~Truthy(b.stock)

\* line 25
CreateFlashInvalid(b) ==
    /\ b.is_flash_sale = <<"true">>
    /\ \/ ~Truthy(b.flash_sale_price)
       \/ parseFloat(b.flash_sale_price[1]) >= parseFloat(b.price[1])

\* lines 46-63, before the images are known
ProductData(owner, b) ==
    LET flash == b.is_flash_sale = <<"true">>
    IN [owner |-> owner,
        name |-> b.name[1],
        description |-> b.description[1],
        category |-> b.category[1],
        price |-> parseFloat(b.price[1]),
        stock |-> parseInt(b.stock[1]).v,
        is_featured |-> (b.is_featured = <<"true">>),
        is_flash_sale |-> flash,
        flash_sale_price |-> IF flash THEN <<parseFloat(b.flash_sale_price[1])>> ELSE <<>>,
        flash_sale_end |-> IF flash THEN <<"now+7d">> ELSE <<>>,
        images |-> <<>>]

\* variant: the check for at least one file (line 29) is left out
createProductWithoutFiles(caller, b) ==
    /\ Ready
    /\ DOMAIN products # ProductIds
    /\ req' = IF caller = <<>> THEN Reply("createProduct", caller, 0, NoBody, 401)
              ELSE IF MissingRequired(b) THEN Reply("createProduct", caller, 0, b, 400)
              ELSE IF CreateFlashInvalid(b) THEN Reply("createProduct", caller, 0, b, 400)
              ELSE [op |-> "createProduct", pc |-> "upload", status |-> 0,
                    caller |-> caller, pid |-> 0, body |-> Kept(b),
                    doc |-> ProductData(caller[1], b), imgs |-> <<>>,
                    uploaded |-> <<>>]
    /\ UNCHANGED <<products, storage, settingsVars, otherVars>>

\* lines 11-32: the validations of createProduct, up to the upload call
createProduct(caller, b) ==
    /\ Ready
    /\ DOMAIN products # ProductIds
    /\ req' = IF caller = <<>> THEN Reply("createProduct", caller, 0, NoBody, 401)
              ELSE IF MissingRequired(b) THEN Reply("createProduct", caller, 0, b, 400)
              ELSE IF CreateFlashInvalid(b) THEN Reply("createProduct", caller, 0, b, 400)
              ELSE IF b.files = 0 THEN Reply("createProduct", caller, 0, b, 400)
              ELSE [op |-> "createProduct", pc |-> "upload", status |-> 0,
                    caller |-> caller, pid |-> 0, body |-> Kept(b),
                    doc |-> ProductData(caller[1], b), imgs |-> <<>>,
                    uploaded |-> <<>>]
    /\ UNCHANGED <<products, storage, settingsVars, otherVars>>

\* lines 220-226: the scalar assignments of updateProduct
AssignScalars(doc, b) ==
    [doc EXCEPT
        !.name = IF Provided(b.name) THEN b.name[1] ELSE @,
        !.description = IF Provided(b.description) THEN b.description[1] ELSE @,
        !.price = IF Provided(b.price) THEN parseFloat(b.price[1]) ELSE @,
        !.category = IF Provided(b.category) THEN b.category[1] ELSE @,
        !.stock = IF Provided(b.stock) THEN parseInt(b.stock[1]).v ELSE @,
        !.is_featured = IF Truthy(b.is_featured) THEN CastBoolean(b.is_featured[1]) ELSE @]

\* lines 228-243: the flash sale block of updateProduct
AssignFlashSale(doc, b) ==
    IF ~Provided(b.is_flash_sale) THEN doc
    ELSE IF b.is_flash_sale = <<"true">>
      THEN IF Truthy(b.flash_sale_price) /\ parseFloat(b.flash_sale_price[1]) < doc.price
             THEN [doc EXCEPT !.is_flash_sale = TRUE,
                              !.flash_sale_price = <<parseFloat(b.flash_sale_price[1])>>,
                              !.flash_sale_end = <<"now+7d">>]
             ELSE [doc EXCEPT !.is_flash_sale = TRUE]
      ELSE [doc EXCEPT !.is_flash_sale = FALSE,
                       !.flash_sale_price = <<>>,
                       !.flash_sale_end = <<>>]

\* variant: the ownership comparison is missing
NotOwnerUnchecked(doc, caller) == FALSE

\* lines 213, 300: product.owner.toString() !== ownerId.toString()
NotOwner(doc, caller) == doc.owner # caller[1]

\* lines 199-256: updateProduct up to the upload call or the save
updateProduct(caller, pid, b) ==
    /\ Ready
    /\ req' = IF ~isValidObjectId(pid) THEN Reply("updateProduct", caller, pid, NoBody, 400)
              ELSE IF caller = <<>> THEN Reply("updateProduct", caller, pid, NoBody, 401)
              ELSE IF pid \notin DOMAIN products THEN Reply("updateProduct", caller, pid, NoBody, 404)
              ELSE IF NotOwner(products[pid], caller)
                THEN Reply("updateProduct", caller, pid, NoBody, 403)
              ELSE [op |-> "updateProduct",
                    pc |-> IF b.files > 0 THEN "upload" ELSE "save",
                    status |-> 0, caller |-> caller, pid |-> pid, body |-> Kept(b),
                    doc |-> AssignFlashSale(AssignScalars(products[pid], b), b),
                    imgs |-> KeepExisting(b.existingImages), uploaded |-> <<>>]
    /\ UNCHANGED <<products, storage, settingsVars, otherVars>>

\* the ids the object storage gives to n newly uploaded files
RECURSIVE FreshImages(_, _)
FreshImages(n, used) ==
    IF n = 0 THEN <<>>
    ELSE LET id == CHOOSE i \in ImageIds \ used :
                        \A j \in ImageIds \ used : i <= j
         IN <<id>> \o FreshImages(n - 1, used \cup {id})

\* lines 34-38 and 260-272: the upload returns the images, returns nothing,
\* or throws
uploadMultipleOnCloudinary(outcome) ==
    /\ req.pc = "upload"
    /\ IF outcome = "images"
         THEN /\ Cardinality(ImageIds \ storage) >= req.body.files
              /\ LET uploaded == FreshImages(req.body.files, storage)
                 IN /\ storage' = storage \cup {uploaded[i] : i \in 1..Len(uploaded)}
                    /\ req' = [req EXCEPT
                          !.pc = IF req.op = "createProduct" THEN "create" ELSE "save",
                          !.uploaded = uploaded,
                          !.imgs = req.imgs \o uploaded]
         ELSE /\ req' = Finish(500)
              /\ UNCHANGED storage
    /\ UNCHANGED <<products, settingsVars, otherVars>>

\* lines 41-71: Product.create(productData)
ProductCreate(ok) ==
    /\ req.pc = "create"
    /\ IF ok
         THEN LET id == CHOOSE i \in ProductIds \ DOMAIN products :
                            \A j \in ProductIds \ DOMAIN products : i <= j
              IN /\ products' = [i \in DOMAIN products \cup {id} |->
                                    IF i = id THEN [req.doc EXCEPT !.images = req.imgs]
                                    ELSE products[i]]
                 /\ req' = [Finish(201) EXCEPT !.pid = id]
         ELSE /\ req' = Finish(500)
              /\ UNCHANGED products
    /\ UNCHANGED <<storage, settingsVars, otherVars>>

\* variant: the image list is assigned also when it is empty
ProductSaveAlwaysAssign(ok) ==
    /\ req.pc = "save"
    /\ IF ok
         THEN /\ products' = [products EXCEPT ![req.pid] =
                    [req.doc EXCEPT !.images = req.imgs]]
              /\ req' = Finish(200)
         ELSE /\ req' = Finish(500)
              /\ UNCHANGED products
    /\ UNCHANGED <<storage, settingsVars, otherVars>>

\* lines 275-285: product.save()
ProductSave(ok) ==
    /\ req.pc = "save"
    /\ IF ok
         THEN /\ products' = [products EXCEPT ![req.pid] =
                    IF Len(req.imgs) > 0 THEN [req.doc EXCEPT !.images = req.imgs]
                    ELSE req.doc]
              /\ req' = Finish(200)
         ELSE /\ req' = Finish(500)
              /\ UNCHANGED products
    /\ UNCHANGED <<storage, settingsVars, otherVars>>

\* lines 287-308: deleteProduct up to the storage removal
deleteProduct(caller, pid) ==
    /\ Ready
    /\ req' = IF ~isValidObjectId(pid) THEN Reply("deleteProduct", caller, pid, NoBody, 400)
              ELSE IF caller = <<>> THEN Reply("deleteProduct", caller, pid, NoBody, 401)
              ELSE IF pid \notin DOMAIN products
                THEN Reply("deleteProduct", caller, pid, NoBody, 404)
              ELSE IF NotOwner(products[pid], caller)
                THEN Reply("deleteProduct", caller, pid, NoBody, 403)
              ELSE [op |-> "deleteProduct",
                    pc |-> IF Len(products[pid].images) > 0 THEN "remove" ELSE "delete",
                    status |-> 0, caller |-> caller, pid |-> pid, body |-> NoBody,
                    doc |-> NoDoc, imgs |-> products[pid].images, uploaded |-> <<>>]
    /\ UNCHANGED <<products, storage, settingsVars, otherVars>>

\* variant: a failed storage removal is swallowed and the handler goes on
removeMultipleFromCloudinarySwallowed(outcome) ==
    /\ req.pc = "remove"
    /\ storage' = IF outcome = "removed"
                    THEN storage \ {req.imgs[i] : i \in 1..Len(req.imgs)}
                    ELSE storage
    /\ req' = [req EXCEPT !.pc = "delete"]
    /\ UNCHANGED <<products, settingsVars, otherVars>>

\* line 307: await removeMultipleFromCloudinary(publicIds, "image")
removeMultipleFromCloudinary(outcome) ==
    /\ req.pc = "remove"
    /\ IF outcome = "removed"
         THEN /\ storage' = storage \ {req.imgs[i] : i \in 1..Len(req.imgs)}
              /\ req' = [req EXCEPT !.pc = "delete"]
         ELSE /\ req' = Finish(500)
              /\ UNCHANGED storage
    /\ UNCHANGED <<products, settingsVars, otherVars>>

\* lines 310-314: await Product.findByIdAndDelete(productId)
findByIdAndDelete(ok) ==
    /\ req.pc = "delete"
    /\ IF ok
         THEN /\ products' = [i \in DOMAIN products \ {req.pid} |-> products[i]]
              /\ req' = Finish(200)
         ELSE /\ req' = Finish(500)
              /\ UNCHANGED products
    /\ UNCHANGED <<storage, settingsVars, otherVars>>

UploadOutcomes == {"images", "nothing", "throws"}

RemoveOutcomes == {"removed", "throws"}

\* request bodies that vary the scalar and flash sale fields
CreateScalarBodies ==
    {[NoBody EXCEPT !.name = n, !.description = <<"d">>, !.price = p,
                    !.category = <<"c">>, !.stock = <<"5">>,
                    !.is_flash_sale = f, !.flash_sale_price = fp, !.files = k] :
        n \in Opt({"A"}), p \in Opt({"50", "100"}),
        f \in Opt({"true", "false"}), fp \in Opt({"50", "100"}),
        k \in 0..MaxFiles}

UpdateScalarBodies ==
    {[NoBody EXCEPT !.price = p, !.is_flash_sale = f, !.flash_sale_price = fp] :
        p \in Opt({"50", "100"}),
        f \in Opt({"true", "false"}), fp \in Opt({"", "50", "100"})}

\* one request at a time, bodies that vary the scalar and flash sale fields
NextProducts ==
    \/ \E c \in Callers, b \in CreateScalarBodies : createProduct(c, b)
    \/ \E c \in Callers, pid \in RequestIds, b \in UpdateScalarBodies :
            updateProduct(c, pid, b)
    \/ \E c \in Callers, pid \in RequestIds : deleteProduct(c, pid)
    \/ \E o \in UploadOutcomes : uploadMultipleOnCloudinary(o)
    \/ \E ok \in BOOLEAN : ProductCreate(ok)
    \/ \E ok \in BOOLEAN : ProductSave(ok)
    \/ \E o \in RemoveOutcomes : removeMultipleFromCloudinary(o)
    \/ \E ok \in BOOLEAN : findByIdAndDelete(ok)

\* request bodies that vary the image fields, with one scalar field
CreateImageBodies ==
    {[NoBody EXCEPT !.name = <<"A">>, !.description = <<"d">>, !.price = <<"100">>,
                    !.category = <<"c">>, !.stock = <<"5">>, !.files = k] :
        k \in 0..MaxFiles}

\* the elements of list at the positions of idx, in the order of list
RECURSIVE Pick(_, _, _)
Pick(list, idx, i) ==
    IF i > Len(list) THEN <<>>
    ELSE (IF i \in idx THEN <<list[i]>> ELSE <<>>) \o Pick(list, idx, i + 1)

\* the image lists a client sends back: at most MaxKept of the images of the
\* product it addresses
RetainedLists(pid) ==
    IF pid \in DOMAIN products
      THEN LET imgs == products[pid].images
           IN {Pick(imgs, idx, 1) :
                 idx \in {I \in SUBSET (1..Len(imgs)) : Cardinality(I) <= MaxKept}}
      ELSE {<<>>}

UpdateImageBodies(pid) ==
    {[NoBody EXCEPT !.name = n, !.existingImages = ei, !.files = k] :
        n \in Opt({"B"}),
        ei \in {EIUndefined, EIEmptyString, EIInvalidJSON, EIScalarJSON}
                \cup {EIArray(l) : l \in RetainedLists(pid)},
        k \in 0..MaxFiles}

\* one request at a time, bodies that vary the image fields
NextImages ==
    \/ \E c \in Callers, b \in CreateImageBodies : createProduct(c, b)
    \/ \E c \in Callers, pid \in RequestIds :
            \E b \in UpdateImageBodies(pid) : updateProduct(c, pid, b)
    \/ \E c \in Callers, pid \in RequestIds : deleteProduct(c, pid)
    \/ \E o \in UploadOutcomes : uploadMultipleOnCloudinary(o)
    \/ \E ok \in BOOLEAN : ProductCreate(ok)
    \/ \E ok \in BOOLEAN : ProductSave(ok)
    \/ \E o \in RemoveOutcomes : removeMultipleFromCloudinary(o)
    \/ \E ok \in BOOLEAN : findByIdAndDelete(ok)

(***************************************************************************)
(* Payments: payment.controller.js (src/unnamed/part_001)                  *)
(***************************************************************************)
MaxPayments == 2

PaymentIds == 1..MaxPayments

\* identifiers a request can carry: 0 is a malformed id, MaxPayments + 1 a
\* well-formed id that no payment has
PaymentRequestIds == 0..(MaxPayments + 1)

validStatuses == {"pending", "paid", "failed", "refunded"}

\* createdAt, in days before now
PaymentAges == {5, 400}

PaymentAmounts == {10, 25}

\* the documents a PaymentIntent collection can hold: the order, the customer
\* and the intentId are fixed by the id
PaymentDocs ==
    [status : validStatuses, totalAmount : PaymentAmounts, createdAt : PaymentAges,
     customer : {"Ann"}]

PaymentCollections ==
    UNION {[1..n -> PaymentDocs] : n \in 0..MaxPayments}

NoAnalytics ==
    [totalRevenue |-> 0, pendingPayments |-> 0, pendingAmount |-> 0,
     completedPayments |-> 0, completedAmount |-> 0, failedPayments |-> 0,
     failedAmount |-> 0, refundedPayments |-> 0, refundedAmount |-> 0,
     revenueTrend |-> <<>>]

IdlePay ==
    [op |-> "none", code |-> 0, id |-> 0, status |-> <<>>, period |-> <<>>,
     data |-> NoAnalytics]

\* variant: the target status is not validated against the enum
updatePaymentStatusUnvalidated(id, status) ==
    /\ IF ~isValidObjectId(id) \/ ~Truthy(status)
         THEN /\ pay' = [IdlePay EXCEPT !.op = "updatePaymentStatus", !.code = 400,
                                        !.id = id, !.status = status]
              /\ UNCHANGED payments
         ELSE IF id \notin DOMAIN payments
         THEN /\ pay' = [IdlePay EXCEPT !.op = "updatePaymentStatus", !.code = 404,
                                        !.id = id, !.status = status]
              /\ UNCHANGED payments
         ELSE /\ payments' = [payments EXCEPT ![id].status = status[1]]
              /\ pay' = [IdlePay EXCEPT !.op = "updatePaymentStatus", !.code = 200,
                                        !.id = id, !.status = status]
    /\ UNCHANGED <<settingsVars, productVars, listing>>

\* lines 178-213
updatePaymentStatus(id, status) ==
    /\ IF ~isValidObjectId(id)
         THEN /\ pay' = [IdlePay EXCEPT !.op = "updatePaymentStatus", !.code = 400,
                                        !.id = id, !.status = status]
              /\ UNCHANGED payments
         ELSE IF ~Truthy(status) \/ status[1] \notin validStatuses
         THEN /\ pay' = [IdlePay EXCEPT !.op = "updatePaymentStatus", !.code = 400,
                                        !.id = id, !.status = status]
              /\ UNCHANGED payments
         ELSE IF id \notin DOMAIN payments
         THEN /\ pay' = [IdlePay EXCEPT !.op = "updatePaymentStatus", !.code = 404,
                                        !.id = id, !.status = status]
              /\ UNCHANGED payments
         ELSE /\ payments' = [payments EXCEPT ![id].status = status[1]]
              /\ pay' = [IdlePay EXCEPT !.op = "updatePaymentStatus", !.code = 200,
                                        !.id = id, !.status = status]
    /\ UNCHANGED <<settingsVars, productVars, listing>>

\* { $sum: "$totalAmount" } over the documents ids
RECURSIVE SumAmount(_)
SumAmount(ids) ==
    IF ids = {} THEN 0
    ELSE LET id == CHOOSE i \in ids : TRUE
         IN payments[id].totalAmount + SumAmount(ids \ {id})

\* variant: the revenue is summed over the monthly window only
TotalRevenueResultWindowed ==
    LET paid == {id \in DOMAIN payments :
                    payments[id].status = "paid" /\ payments[id].createdAt <= 12 * 30}
    IN IF paid = {} THEN <<>> ELSE <<[total |-> SumAmount(paid)]>>

\* lines 102-105: $match { status: "paid" }, $group { _id: null }: one group,
\* or none when nothing matches
TotalRevenueResult ==
    LET paid == {id \in DOMAIN payments : payments[id].status = "paid"}
    IN IF paid = {} THEN <<>> ELSE <<[total |-> SumAmount(paid)]>>

\* lines 109-117: $group by status: one group for each status that occurs
StatusCounts ==
    {[id |-> st,
      count |-> Cardinality({i \in DOMAIN payments : payments[i].status = st}),
      amount |-> SumAmount({i \in DOMAIN payments : payments[i].status = st})] :
        st \in {payments[i].status : i \in DOMAIN payments}}

\* statusCounts.find(s => s._id === st)?.count || 0
CountOf(st) ==
    IF \E g \in StatusCounts : g.id = st
      THEN (CHOOSE g \in StatusCounts : g.id = st).count
      ELSE 0

\* statusCounts.find(s => s._id === st)?.amount || 0
AmountOf(st) ==
    IF \E g \in StatusCounts : g.id = st
      THEN (CHOOSE g \in StatusCounts : g.id = st).amount
      ELSE 0

\* lines 135-147: the rolling window of the trend, in days
TrendWindow(period) ==
    IF period = <<"daily">> THEN 7
    ELSE IF period = <<"weekly">> THEN 12 * 7
    ELSE 12 * 30

\* lines 137-145: the bucket of a document; the calendar day, ISO week and
\* calendar month of $dateToString are taken as spans of 1, 7 and 30 days
TrendBucket(period, age) ==
    IF period = <<"daily">> THEN age
    ELSE IF period = <<"weekly">> THEN age \div 7
    ELSE age \div 30

\* lines 149-170: the groups of the trend, oldest bucket first
RECURSIVE TrendList(_, _)
TrendList(period, ids) ==
    IF ids = {} THEN <<>>
    ELSE LET oldest == CHOOSE i \in ids :
                          \A j \in ids : payments[j].createdAt <= payments[i].createdAt
             bucket == TrendBucket(period, payments[oldest].createdAt)
             same == {i \in ids : TrendBucket(period, payments[i].createdAt) = bucket}
         IN <<[period |-> bucket, revenue |-> SumAmount(same),
               count |-> Cardinality(same)]>> \o TrendList(period, ids \ same)

RevenueTrend(period) ==
    TrendList(period,
        {i \in DOMAIN payments :
            /\ payments[i].status = "paid"
            /\ payments[i].createdAt <= TrendWindow(period)})

\* lines 98-175
getPaymentAnalytics(period) ==
    /\ pay' = [IdlePay EXCEPT
          !.op = "getPaymentAnalytics",
          !.code = 200,
          !.period = period,
          !.data = [totalRevenue |-> IF TotalRevenueResult = <<>> THEN 0
                                     ELSE TotalRevenueResult[1].total,
                    pendingPayments |-> CountOf("pending"),
                    pendingAmount |-> AmountOf("pending"),
                    completedPayments |-> CountOf("paid"),
                    completedAmount |-> AmountOf("paid"),
                    failedPayments |-> CountOf("failed"),
                    failedAmount |-> AmountOf("failed"),
                    refundedPayments |-> CountOf("refunded"),
                    refundedAmount |-> AmountOf("refunded"),
                    revenueTrend |-> RevenueTrend(period)]]
    /\ UNCHANGED <<payments, settingsVars, productVars, listing>>

StatusInputs == Opt(validStatuses \cup {"", "cancelled"})

PeriodInputs == Opt({"daily", "weekly", "monthly", "yearly"})

NextPayments ==
    \/ \E id \in PaymentRequestIds, st \in StatusInputs : updatePaymentStatus(id, st)
    \/ \E period \in PeriodInputs : getPaymentAnalytics(period)

(***************************************************************************)
(* Listings: getAllProducts, getProductsByCategory (product.controller.js) *)
(* and getAllPayments (part_001)                                           *)
(***************************************************************************)
MaxListed == 3

\* the characters of the strings the documents and the queries carry
Chars(s) ==
    CASE s = "Pen"   -> <<"P", "e", "n">>
      [] s = "Shoes" -> <<"S", "h", "o", "e", "s">>
      [] s = "Hats"  -> <<"H", "a", "t", "s">>
      [] s = "HAT"   -> <<"H", "A", "T">>
      [] s = "sho"   -> <<"s", "h", "o">>
      [] s = "Ann"   -> <<"A", "n", "n">>
      [] s = "Bob"   -> <<"B", "o", "b">>
      [] s = "AN"    -> <<"A", "N">>
      [] s = "O1"    -> <<"O", "1">>
      [] s = "ann@x" -> <<"a", "n", "n", "@", "x">>
      [] s = "bob@x" -> <<"b", "o", "b", "@", "x">>
      [] s = ""      -> <<>>
      [] OTHER       -> <<s>>

\* toLowerCase of a character
LowerChar(c) ==
    CASE c = "A" -> "a" [] c = "B" -> "b" [] c = "H" -> "h" [] c = "N" -> "n"
      [] c = "P" -> "p" [] c = "S" -> "s" [] c = "T" -> "t" [] c = "I" -> "i"
      [] c = "O" -> "o"
      [] OTHER -> c

toLowerCase(cs) == [i \in 1..Len(cs) |-> LowerChar(cs[i])]

\* String.prototype.includes
includes(cs, part) ==
    \E i \in 0..(Len(cs) - Len(part)) : SubSeq(cs, i + 1, i + Len(part)) = part

\* { $regex: pattern, $options: 'i' } for a pattern of plain characters
RegexI(text, pattern) ==
    includes(toLowerCase(Chars(text)), toLowerCase(Chars(pattern)))

\* arithmetic and comparisons of JavaScript numbers
JsSub(a, n) == IF a.k = "int" THEN Num(a.v - n) ELSE a

JsMul(a, b) ==
    IF a.k = "int" /\ b.k = "int" THEN Num(a.v * b.v) ELSE NaN

\* Math.ceil(total / limit) for an integer total >= 0
JsCeilDiv(total, limit) ==
    IF limit.k # "int" THEN NaN
    ELSE IF limit.v = 0 THEN (IF total = 0 THEN NaN ELSE Infinity)
    ELSE IF limit.v > 0 THEN Num(0 - ((0 - total) \div limit.v))
    ELSE Num(0 - (total \div (0 - limit.v)))

JsLt(a, b) ==
    IF a.k = "NaN" \/ b.k = "NaN" THEN FALSE
    ELSE IF a.k = "Infinity" THEN FALSE
    ELSE IF b.k = "Infinity" THEN TRUE
    ELSE a.v < b.v

JsGt(a, b) == JsLt(b, a)

\* parseInt(page), parseInt(limit) with the destructuring default
ParamInt(x, default) == IF Provided(x) THEN parseInt(x[1]) ELSE Num(default)

\* .sort({ [sortBy]: direction }): ascending for direction 1, descending for
\* -1; documents with equal keys stay in id order
RECURSIVE SortIds(_, _, _)
SortIds(ids, key, direction) ==
    IF ids = {} THEN <<>>
    ELSE LET first == CHOOSE i \in ids : \A j \in ids :
                        \/ key[i] * direction < key[j] * direction
                        \/ key[i] = key[j] /\ i <= j
         IN <<first>> \o SortIds(ids \ {first}, key, direction)

\* sortOrder === 'desc' ? -1 : 1, with the default 'desc'
Direction(sortOrder) ==
    IF ~Provided(sortOrder) \/ sortOrder = <<"desc">> THEN 0 - 1 ELSE 1

\* the store rejects a skip that is negative or not a number and a limit
\* that is not a number
CursorFails(skip, limit) ==
    skip.k # "int" \/ limit.k # "int" \/ skip.v < 0

\* .skip(skip).limit(limit): limit 0 is no limit, a negative limit is taken
\* by its absolute value
Cursor(sorted, skip, limit) ==
    LET n == IF limit.v = 0 THEN Len(sorted)
             ELSE IF limit.v < 0 THEN 0 - limit.v ELSE limit.v
        last == IF skip.v + n < Len(sorted) THEN skip.v + n ELSE Len(sorted)
    IN IF skip.v >= Len(sorted) THEN <<>> ELSE SubSeq(sorted, skip.v + 1, last)

NoListing ==
    [op |-> "none", code |-> 0, query |-> <<>>, found |-> <<>>, rows |-> <<>>,
     currentPage |-> NaN, totalPages |-> NaN, total |-> 0,
     hasNext |-> FALSE, hasPrev |-> FALSE]

\* lines 101-129, 167-196 and part_001 lines 41-93: the page of the sorted
\* documents, the count and the response; found is the filtered, sorted set
\* that the page is cut from
Listed(op, q, matching, key, default) ==
    LET page == ParamInt(q.page, 1)
        limit == ParamInt(q.limit, default)
        skip == JsMul(JsSub(page, 1), limit)
        sorted == SortIds(matching, key, Direction(q.sortOrder))
        total == Cardinality(matching)
        totalPages == JsCeilDiv(total, limit)
    IN IF CursorFails(skip, limit)
         THEN [NoListing EXCEPT !.op = op, !.code = 500, !.query = q]
         ELSE [op |-> op, code |-> 200, query |-> q, found |-> sorted,
               rows |-> Cursor(sorted, skip, limit),
               currentPage |-> page, totalPages |-> totalPages, total |-> total,
               hasNext |-> JsLt(page, totalPages),
               hasPrev |-> JsGt(page, Num(1))]

\* lines 85-90, 160-165: the price range filter
PriceInRange(doc, q) ==
    /\ Truthy(q.minPrice) => doc.price >= parseFloat(q.minPrice[1])
    /\ Truthy(q.maxPrice) => doc.price <= parseFloat(q.maxPrice[1])

\* the sort key of the products: createdAt grows with the id
ProductKey(sortBy) ==
    [i \in DOMAIN products |->
        IF sortBy = <<"price">> THEN products[i].price ELSE i]

\* lines 74-130: the response of getAllProducts to the query q
AllProducts(q) ==
    LET matching == {i \in DOMAIN products :
            /\ Truthy(q.category) => RegexI(products[i].category, q.category[1])
            /\ PriceInRange(products[i], q)
            /\ Truthy(q.search) =>
                  \/ RegexI(products[i].name, q.search[1])
                  \/ RegexI(products[i].description, q.search[1])
                  \/ RegexI(products[i].category, q.search[1])}
    IN Listed("getAllProducts", q, matching, ProductKey(q.sortBy), 20)

\* lines 147-197: the response of getProductsByCategory
ProductsByCategory(categoryName, q) ==
    IF ~Truthy(categoryName)
      THEN [NoListing EXCEPT !.op = "getProductsByCategory", !.code = 400,
                             !.query = q]
      ELSE LET matching == {i \in DOMAIN products :
                  /\ RegexI(products[i].category, categoryName[1])
                  /\ PriceInRange(products[i], q)}
           IN Listed("getProductsByCategory", q, matching, ProductKey(q.sortBy), 20)

\* new Date(startDate), new Date(endDate): the day, in days before now
ParseDate(s) ==
    CASE s = "day-9" -> 9
      [] s = "day-8" -> 8

\* the populated order and customer of a payment, and its intentId
CustomerEmail(i) == IF payments[i].customer = "Ann" THEN "ann@x" ELSE "bob@x"

IntentId(i) == <<"P", "I", ToString(i)>>

OrderId(i) == <<"o", ToString(i)>>

\* part_001 lines 62-77: the search filter on the fetched page
SearchMatches(i, search) ==
    LET searchLower == toLowerCase(Chars(search))
    IN \/ includes(toLowerCase(Chars(payments[i].customer)), searchLower)
       \/ includes(toLowerCase(Chars(CustomerEmail(i))), searchLower)
       \/ includes(toLowerCase(IntentId(i)), searchLower)
       \/ includes(OrderId(i), searchLower)

\* Array.prototype.filter
RECURSIVE Filter(_, _)
Filter(rows, search) ==
    IF rows = <<>> THEN <<>>
    ELSE (IF SearchMatches(Head(rows), search) THEN <<Head(rows)>> ELSE <<>>)
            \o Filter(Tail(rows), search)

\* the sort key of the payments: createdAt is in days before now
PaymentKey(sortBy) ==
    [i \in DOMAIN payments |->
        IF sortBy = <<"totalAmount">> THEN payments[i].totalAmount
        ELSE 0 - payments[i].createdAt]

\* variant: the search is part of the store query, before skip and limit
AllPaymentsSearchInQuery(q) ==
    LET matching == {i \in DOMAIN payments :
            /\ (Truthy(q.status) /\ q.status # <<"all">>) =>
                  payments[i].status = q.status[1]
            /\ Truthy(q.startDate) =>
                  payments[i].createdAt <= ParseDate(q.startDate[1])
            /\ Truthy(q.endDate) =>
                  payments[i].createdAt >= ParseDate(q.endDate[1])
            /\ Truthy(q.search) => SearchMatches(i, q.search[1])}
    IN Listed("getAllPayments", q, matching, PaymentKey(q.sortBy), 10)

\* part_001 lines 7-94; the end date is moved to the end of its day (line
\* 36), so that the whole day is in the range
AllPayments(q) ==
    LET matching == {i \in DOMAIN payments :
            /\ (Truthy(q.status) /\ q.status # <<"all">>) =>
                  payments[i].status = q.status[1]
            /\ Truthy(q.startDate) =>
                  payments[i].createdAt <= ParseDate(q.startDate[1])
            /\ Truthy(q.endDate) =>
                  payments[i].createdAt >= ParseDate(q.endDate[1])}
        fetched == Listed("getAllPayments", q, matching, PaymentKey(q.sortBy), 10)
    IN IF fetched.code = 200 /\ Truthy(q.search)
         THEN [fetched EXCEPT !.rows = Filter(fetched.rows, q.search[1])]
         ELSE fetched

PageInputs == Opt({"1", "2", "3", "0", "abc"})

LimitInputs == Opt({"1", "2", "0", "-1", "abc"})

ProductQueries ==
    [page : PageInputs, limit : LimitInputs, category : Opt({"sho"}),
     minPrice : Opt({"80"}), maxPrice : Opt({"80"}), search : Opt({"HAT"}),
     sortBy : Opt({"price"}), sortOrder : Opt({"asc"})]

CategoryQueries ==
    [page : PageInputs, limit : LimitInputs, minPrice : Opt({"80"}),
     maxPrice : {<<>>}, sortBy : Opt({"price"}), sortOrder : Opt({"asc"})]

PaymentQueries ==
    [page : PageInputs, limit : LimitInputs, search : Opt({"", "AN", "b", "O1"}),
     status : Opt({"paid", "all"}), startDate : Opt({"day-9"}),
     endDate : Opt({"day-8"}), sortBy : {<<>>}, sortOrder : Opt({"asc"})]

\* GET /products: one listing request is applied to the collection
getAllProducts ==
    /\ listing.op = "none"
    /\ \E q \in ProductQueries : listing' = AllProducts(q)
    /\ UNCHANGED <<settingsVars, productVars, paymentVars>>

\* GET /category/products
getProductsByCategory ==
    /\ listing.op = "none"
    /\ \E c \in Opt({"", "s", "Hats"}), q \in CategoryQueries :
            listing' = ProductsByCategory(c, q)
    /\ UNCHANGED <<settingsVars, productVars, paymentVars>>

\* GET /payments
getAllPayments ==
    /\ listing.op = "none"
    /\ \E q \in PaymentQueries : listing' = AllPayments(q)
    /\ UNCHANGED <<settingsVars, productVars, paymentVars>>

NextListing ==
    \/ getAllProducts
    \/ getProductsByCategory
    \/ getAllPayments

\* a product as createProduct stores it
ListedProduct(price, category) ==
    [NoDoc EXCEPT !.owner = "u1", !.name = "Pen", !.description = "d",
                  !.category = category, !.price = price, !.stock = 5,
                  !.images = <<1>>]

ProductListings ==
    UNION {{[i \in 1..n |-> ListedProduct(p[i], c[i])] :
              p \in [1..n -> {50, 100}], c \in [1..n -> {"Shoes", "Hats"}]} :
           n \in 0..MaxListed}

\* payment i was created 10 - i days before now
PaymentListings ==
    UNION {{[i \in 1..n |-> [status |-> st[i], totalAmount |-> 10,
                             createdAt |-> 10 - i, customer |-> c[i]]] :
              st \in [1..n -> {"pending", "paid"}], c \in [1..n -> {"Ann", "Bob"}]} :
           n \in 0..MaxListed}

\* no payment exists and no payment or listing request has been made
InitNoPayments ==
    /\ payments = <<>>
    /\ pay = IdlePay
    /\ listing = NoListing

Init == InitSettings /\ InitProducts /\ InitNoPayments

\* the payment collection is any collection of up to MaxPayments documents
InitPayments ==
    /\ InitSettings
    /\ InitProducts
    /\ payments \in PaymentCollections
    /\ pay = IdlePay
    /\ listing = NoListing

\* the collections are any products or any payments of up to MaxListed
\* documents
InitListing ==
    /\ InitSettings
    /\ storage = {1}
    /\ req = IdleReq
    /\ pay = IdlePay
    /\ listing = NoListing
    /\ \/ products \in ProductListings /\ payments = <<>>
       \/ products = <<>> /\ payments \in PaymentListings

SpecSettings == Init /\ [][NextSettings]_vars

SpecSettingsSeq == Init /\ [][NextSettingsSeq]_vars

SpecProducts == Init /\ [][NextProducts]_vars

SpecImages == Init /\ [][NextImages]_vars

SpecPayments == InitPayments /\ [][NextPayments]_vars

SpecListing == InitListing /\ [][NextListing]_vars


(***************************************************************************)
(* Properties                                                              *)
(***************************************************************************)

\* C1: under any interleaving of handlers that call Settings.getSettings()
\* the collection never holds more than one Settings record, and it holds
\* exactly one once a call has returned.
C1_SingleSettingsRecord ==
    /\ Len(settingsColl) <= 1
    /\ (\E h \in HandlerIds : handlers[h].pc \in {"loaded", "done"})
          => Len(settingsColl) = 1

\* C2: every stored product with is_flash_sale = true has a defined
\* flash_sale_price strictly below its price.
C2_FlashSalePriceBelowPrice ==
    \A pid \in DOMAIN products :
        products[pid].is_flash_sale =>
            /\ products[pid].flash_sale_price # <<>>
            /\ products[pid].flash_sale_price[1] < products[pid].price

\* the step is the first step of an updateProduct or deleteProduct request
\* of an authenticated account on an existing product it does not own
NonOwnerRequest ==
    /\ Ready
    /\ req'.op \in {"updateProduct", "deleteProduct"}
    /\ req'.caller # <<>>
    /\ req'.pid \in DOMAIN products
    /\ products[req'.pid].owner # req'.caller[1]

\* C3: updateProduct and deleteProduct by an authenticated account that is
\* not the owner of the existing product end at once with 403, and leave the
\* product collection and the object storage as they were.
C3_NonOwnerForbidden ==
    [][NonOwnerRequest =>
          /\ req'.pc = "done"
          /\ req'.status = 403
          /\ products' = products
          /\ storage' = storage]_vars

C3_Witness ==
    /\ req.op = "updateProduct"
    /\ req.pc = "done"
    /\ req.status = 403
    /\ req.caller # <<>>
    /\ req.pid \in DOMAIN products
    /\ products[req.pid].owner # req.caller[1]

\* the price a product has once the request r is applied: the price of the
\* body when it carries one, else the stored price
ResultingPrice(r) ==
    IF Truthy(r.body.price) THEN <<parseFloat(r.body.price[1])>>
    ELSE IF r.op = "updateProduct" /\ ~Provided(r.body.price)
              /\ r.pid \in DOMAIN products
      THEN <<products[r.pid].price>>
    ELSE <<>>

\* the request r asks for a flash sale at a price that is not below the
\* resulting price
FlashSaleNotBelowPrice(r) ==
    /\ r.op \in {"createProduct", "updateProduct"}
    /\ r.body.is_flash_sale = <<"true">>
    /\ Truthy(r.body.flash_sale_price)
    /\ ResultingPrice(r) # <<>>
    /\ parseFloat(r.body.flash_sale_price[1]) >= ResultingPrice(r)[1]

\* C4: a createProduct or updateProduct request with is_flash_sale = 'true'
\* and a flash_sale_price at or above the resulting price is answered with
\* 400 and leaves the product collection as it was.
C4_FlashSaleRejected ==
    [][(Ready /\ FlashSaleNotBelowPrice(req')) =>
          /\ req'.pc = "done"
          /\ req'.status = 400
          /\ products' = products]_vars

\* the value a settings path holds after v is assigned to it
StoredValue(f, v) ==
    CASE f = "siteName" /\ v = " X " -> "X"
      [] f = "contactEmail" /\ v = " A@B.C " -> "a@b.c"
      [] OTHER -> v

\* the fields that updateSettings(p) is to change
FieldsToChange(p) ==
    {f \in StringFields : p[f] # <<>> /\ p[f] # <<"">>}
        \cup {f \in {"maintenanceMode"} : p[f] # <<>>}

\* C5: updateSettings(partial) changes only the string fields that are
\* present and truthy in partial, and maintenanceMode when it is provided;
\* when the save succeeds these fields hold the supplied values; every other
\* field keeps its value, and no record is added when one exists.
C5_UpdateSettingsFrame ==
    [][/\ Len(settingsColl) >= 1 => Len(settingsColl') = Len(settingsColl)
       /\ \A h \in HandlerIds :
            updateSettings(h) =>
                LET i == handlers[h].idx
                    p == handlers[h].body
                IN /\ \A f \in SettingsFields \ FieldsToChange(p) :
                          settingsColl'[i][f] = settingsColl[i][f]
                   /\ handlers'[h].status = 200 =>
                          \A f \in FieldsToChange(p) :
                              settingsColl'[i][f] = StoredValue(f, p[f][1])
                   /\ handlers'[h].status # 200 => settingsColl' = settingsColl]_vars

C5_Witness ==
    /\ \E h \in HandlerIds :
          /\ handlers[h].kind = "updateSettings"
          /\ handlers[h].pc = "done"
          /\ handlers[h].status = 200
    /\ Len(settingsColl) = 1
    /\ settingsColl[1].siteName = "X"
    /\ settingsColl[1].maintenanceMode = TRUE
    /\ settingsColl[1].currency = DefaultSettings.currency
    /\ settingsColl[1].contactEmail = DefaultSettings.contactEmail

\* the images of list that the object storage holds
Stored(list) == {list[i] : i \in 1..Len(list)} \cap storage

\* C6: a product record is removed only by the last step of deleteProduct,
\* after the removal of its images from the object storage has completed;
\* when that removal throws, the request ends and the record stays.
C6_ImagesRemovedBeforeRecord ==
    [][/\ (\E pid \in DOMAIN products : pid \notin DOMAIN products') =>
             /\ req.op = "deleteProduct"
             /\ req.pc = "delete"
             /\ req.pid \in DOMAIN products
             /\ Stored(products[req.pid].images) = {}
       /\ (req.op = "deleteProduct" /\ req.pc = "remove" /\ req'.pc # "delete") =>
             /\ req'.pc = "done"
             /\ req'.status = 500
             /\ products' = products
             /\ req.pid \in DOMAIN products']_vars

C6_Witness ==
    /\ req.op = "deleteProduct"
    /\ req.pc = "delete"
    /\ req.pid \in DOMAIN products
    /\ Len(products[req.pid].images) > 0
    /\ Stored(products[req.pid].images) = {}

\* the retained list that the raw existingImages field denotes
RetainedList(ei) == IF ei.t = "array" THEN ei.items ELSE <<>>

\* C10: a successful updateProduct stores the retained list followed by the
\* uploaded images when that list is not empty and leaves the images as they
\* were when it is empty; when the upload returns nothing the request ends
\* with 500; an updateProduct request changes the product collection only by
\* its successful save.
C10_UpdateImages ==
    [][/\ (req.op = "updateProduct" /\ req.pc = "save" /\ req'.status = 200) =>
             LET final == RetainedList(req.body.existingImages) \o req.uploaded
             IN /\ Len(req.uploaded) = req.body.files
                /\ products'[req.pid].images =
                      IF final # <<>> THEN final ELSE products[req.pid].images
       /\ (req.op = "updateProduct" /\ req.pc = "upload" /\ req'.pc = "done") =>
             req'.status = 500
       /\ (req'.op = "updateProduct" /\ ~(req.pc = "save" /\ req'.status = 200)) =>
             products' = products]_vars

C10_Witness ==
    /\ req.op = "updateProduct"
    /\ req.pc = "done"
    /\ req.status = 200
    /\ req.body.files > 0
    /\ req.body.existingImages.t = "array"
    /\ Len(req.body.existingImages.items) > 0
    /\ req.pid \in DOMAIN products
    /\ Len(products[req.pid].images) = Len(req.body.existingImages.items) + req.body.files
    /\ SubSeq(products[req.pid].images, 1, Len(req.body.existingImages.items))
          = req.body.existingImages.items

\* the four payment statuses
FourStatuses == {"pending", "paid", "failed", "refunded"}

\* C7: updatePaymentStatus(id, s) sets the status of the payment id to s
\* whenever id resolves and s is one of the four statuses, whatever the
\* current status; it replies 400 when s is missing or not one of the four
\* or id is malformed, 404 when id does not resolve, and then changes no
\* payment; every payment's status is always one of the four.
C7_PaymentStatusUpdate ==
    /\ [][pay'.op = "updatePaymentStatus" =>
            LET id == pay'.id
                s == pay'.status
                sOk == s # <<>> /\ s[1] \in FourStatuses
            IN IF id \in DOMAIN payments /\ sOk
                 THEN /\ pay'.code = 200
                      /\ DOMAIN payments' = DOMAIN payments
                      /\ payments'[id] = [payments[id] EXCEPT !.status = s[1]]
                      /\ \A j \in DOMAIN payments \ {id} : payments'[j] = payments[j]
                 ELSE /\ payments' = payments
                      /\ pay'.code = IF id = 0 \/ ~sOk THEN 400 ELSE 404]_vars
    /\ [](\A id \in DOMAIN payments : payments[id].status \in FourStatuses)

C7_Witness ==
    /\ pay.op = "updatePaymentStatus"
    /\ pay.code = 200
    /\ pay.status = <<"pending">>
    /\ pay.id \in DOMAIN payments
    /\ payments[pay.id].status = "pending"

\* the number of the payments 1..n that have status st
RECURSIVE CountUpTo(_, _)
CountUpTo(st, n) ==
    IF n = 0 THEN 0
    ELSE (IF payments[n].status = st THEN 1 ELSE 0) + CountUpTo(st, n - 1)

\* the summed totalAmount of the payments 1..n that have status st
RECURSIVE TotalUpTo(_, _)
TotalUpTo(st, n) ==
    IF n = 0 THEN 0
    ELSE (IF payments[n].status = st THEN payments[n].totalAmount ELSE 0)
            + TotalUpTo(st, n - 1)

\* C9: getPaymentAnalytics returns as totalRevenue the summed totalAmount of
\* all paid payments, whatever their date and the period, equal to
\* completedAmount, and for each status the number and the summed
\* totalAmount of the payments in it, 0 when there is none.
C9_AnalyticsTotals ==
    pay.op = "getPaymentAnalytics" =>
        LET n == Len(payments)
            d == pay.data
        IN /\ d.totalRevenue = TotalUpTo("paid", n)
           /\ d.totalRevenue = d.completedAmount
           /\ d.pendingPayments = CountUpTo("pending", n)
           /\ d.pendingAmount = TotalUpTo("pending", n)
           /\ d.completedPayments = CountUpTo("paid", n)
           /\ d.completedAmount = TotalUpTo("paid", n)
           /\ d.failedPayments = CountUpTo("failed", n)
           /\ d.failedAmount = TotalUpTo("failed", n)
           /\ d.refundedPayments = CountUpTo("refunded", n)
           /\ d.refundedAmount = TotalUpTo("refunded", n)

C9_Witness ==
    /\ pay.op = "getPaymentAnalytics"
    /\ pay.period = <<"daily">>
    /\ \E i \in DOMAIN payments :
          payments[i].status = "paid" /\ payments[i].createdAt > 12 * 30
    /\ pay.data.totalRevenue > 0
    /\ pay.data.refundedPayments = 0
    /\ pay.data.refundedAmount = 0
    /\ pay.data.revenueTrend = <<>>

\* the value of a page or limit parameter that is a positive integer, with
\* its default
PositiveParam(x, default) ==
    IF x = <<>> THEN default
    ELSE IF x = <<"1">> THEN 1
    ELSE IF x = <<"2">> THEN 2
    ELSE IF x = <<"3">> THEN 3
    ELSE 0

\* the listing request was answered with a page
ListingAnswered ==
    /\ listing.op \in {"getAllProducts", "getProductsByCategory", "getAllPayments"}
    /\ listing.code # 400

\* C8: for page and limit that are positive integers, the listing has
\* totalPages = ceil(total / limit), hasNext = (page < totalPages), hasPrev =
\* (page > 1), and its rows are the records at the positions
\* (page-1)*limit .. page*limit-1 of the filtered, sorted set.
C8_Pagination ==
    LET page == PositiveParam(listing.query.page, 1)
        limit == PositiveParam(listing.query.limit,
                               IF listing.op = "getAllPayments" THEN 10 ELSE 20)
        total == Len(listing.found)
        first == (page - 1) * limit
    IN (ListingAnswered /\ page > 0 /\ limit > 0) =>
          /\ listing.code = 200
          /\ listing.total = total
          /\ listing.totalPages.k = "int"
          /\ listing.totalPages.v * limit >= total
          /\ (listing.totalPages.v - 1) * limit < total
          /\ listing.hasNext = (page < listing.totalPages.v)
          /\ listing.hasPrev = (page > 1)
          /\ Len(listing.rows) =
                (IF total - first <= 0 THEN 0
                 ELSE IF total - first < limit THEN total - first ELSE limit)
          /\ \A k \in 1..Len(listing.rows) : listing.rows[k] = listing.found[first + k]

\* the request in flight carries an authenticated caller, the required
\* fields, an acceptable flash sale price and at least one file
CreateValidated ==
    /\ req.caller # <<>>
    /\ req.doc.owner = req.caller[1]
    /\ req.doc.name # "" /\ req.doc.description # "" /\ req.doc.category # ""
    /\ Truthy(req.body.price)
    /\ req.body.is_flash_sale = <<"true">> =>
          /\ Truthy(req.body.flash_sale_price)
          /\ req.doc.flash_sale_price # <<>>
          /\ req.doc.flash_sale_price[1] < req.doc.price
    /\ req.body.files >= 1

\* the images of a list that are in the object storage
InStorage(list) == \A i \in 1..Len(list) : list[i] \in storage

\* the steps of a createProduct request: the upload is left for the database
\* write only with at least one image; a record is added only by a validated
\* request whose upload returned images; a failed upload ends with 500; no
\* failure changes the products; a failed database write leaves the uploaded
\* images in the object storage
CreateProductStep ==
    /\ (req'.op = "createProduct" /\ req'.pc = "create") =>
          (/\ req.op = "createProduct" /\ req.pc = "upload"
           /\ Len(req'.uploaded) >= 1)
    /\ (DOMAIN products' # DOMAIN products /\ req'.op = "createProduct") =>
          (/\ req.op = "createProduct" /\ req.pc = "create"
           /\ CreateValidated
           /\ Len(req.uploaded) >= 1 /\ InStorage(req.uploaded)
           /\ req'.status = 201
           /\ \E id \in ProductIds \ DOMAIN products :
                 /\ DOMAIN products' = DOMAIN products \cup {id}
                 /\ products'[id].images = req.uploaded
                 /\ products'[id].owner = req.caller[1]
                 /\ \A i \in DOMAIN products : products'[i] = products[i])
    /\ (req.op = "createProduct" /\ req.pc = "upload" /\ req'.pc = "done") =>
          (req'.status = 500 /\ products' = products)
    /\ (req'.op = "createProduct" /\ req'.pc = "done" /\ req'.status # 201) =>
          products' = products
    /\ (req.op = "createProduct" /\ req.pc = "create" /\ req'.status # 201) =>
          (/\ req'.status = 500 /\ products' = products
           /\ storage' = storage /\ InStorage(req.uploaded))

\* C11: createProduct calls the upload only for a validated request
\* (authenticated caller, required fields, flash sale price below the price,
\* at least one file); a product record is added only by a validated request
\* whose upload returned at least one image; when the upload throws or
\* returns nothing the request ends with 500 and the products are unchanged;
\* and when the upload succeeded and the database write fails, the uploaded
\* images are still in the object storage.
C11_CreateProduct ==
    /\ []((req.op = "createProduct" /\ req.pc \in {"upload", "create"}) =>
              CreateValidated)
    /\ [][CreateProductStep]_vars

\* a createProduct request whose upload succeeded and whose database write
\* failed: the images are in the object storage and no product holds them
C11_Witness ==
    /\ req.op = "createProduct" /\ req.pc = "done" /\ req.status = 500
    /\ req.body.files >= 1
    /\ storage # {}
    /\ products = <<>>

\* text contains part at some position
Contains(text, part) ==
    \E k \in 1..(Len(text) + 1) :
        /\ k + Len(part) - 1 <= Len(text)
        /\ \A j \in 1..Len(part) : text[k + j - 1] = part[j]

\* the customer name, the customer email or the intentId of payment i
\* contains the term, case-insensitively
MatchesInsensitively(i, term) ==
    LET lower == toLowerCase(Chars(term))
    IN \/ Contains(toLowerCase(Chars(payments[i].customer)), lower)
       \/ Contains(toLowerCase(Chars(CustomerEmail(i))), lower)
       \/ Contains(toLowerCase(IntentId(i)), lower)

\* a getAllPayments request with a non-empty search term was answered
SearchAnswered ==
    /\ listing.op = "getAllPayments" /\ listing.code = 200
    /\ Truthy(listing.query.search)

\* the payments that pass the status and date filters of the request
StatusDateFiltered ==
    LET q == listing.query
    IN {i \in DOMAIN payments :
          /\ (q.status # <<>> /\ q.status # <<"">> /\ q.status # <<"all">>) =>
                payments[i].status = q.status[1]
          /\ q.startDate = <<"day-9">> => payments[i].createdAt <= 9
          /\ q.endDate = <<"day-8">> => payments[i].createdAt >= 8}

\* found lists the status/date-filtered payments once each, by creation
\* date: newest first, or oldest first for sortOrder asc
FoundIsFilteredSorted ==
    /\ {listing.found[k] : k \in 1..Len(listing.found)} = StatusDateFiltered
    /\ Len(listing.found) = Cardinality(StatusDateFiltered)
    /\ \A k, l \in 1..Len(listing.found) :
          k < l => IF listing.query.sortOrder = <<"asc">>
                     THEN payments[listing.found[k]].createdAt >
                          payments[listing.found[l]].createdAt
                     ELSE payments[listing.found[k]].createdAt <
                          payments[listing.found[l]].createdAt

\* the rows are the records of the page slice of the status/date-filtered,
\* sorted set that satisfy matches, in their order, and the pagination is
\* that of the status/date-filtered set
SearchedSlice(matches(_)) ==
    LET page == PositiveParam(listing.query.page, 1)
        limit == PositiveParam(listing.query.limit, 10)
        total == Len(listing.found)
        first == (page - 1) * limit
        last == IF first + limit < total THEN first + limit ELSE total
        slice == IF first >= total THEN <<>>
                 ELSE SubSeq(listing.found, first + 1, last)
    IN /\ FoundIsFilteredSorted
       /\ listing.total = total
       /\ (page > 0 /\ limit > 0) =>
             /\ listing.rows = SelectSeq(slice, matches)
             /\ listing.totalPages.k = "int"
             /\ listing.totalPages.v * limit >= total
             /\ (listing.totalPages.v - 1) * limit < total
             /\ listing.hasNext = (page < listing.totalPages.v)

\* C12 as stated: with a non-empty search term the rows of getAllPayments
\* are exactly the records of the requested page slice whose customer name,
\* customer email or intentId contains the term case-insensitively or whose
\* order id contains the term, and totalPayments, totalPages and hasNext are
\* those of the status/date-filtered set.
C12_SearchAsStated ==
    LET term == listing.query.search[1]
        matches(i) == \/ MatchesInsensitively(i, term)
                      \/ Contains(OrderId(i), Chars(term))
    IN SearchAnswered => SearchedSlice(matches)

\* C12 amended: the same, where the order id is compared with the
\* lower-cased term.
C12_SearchAfterSlice ==
    LET term == listing.query.search[1]
        matches(i) == \/ MatchesInsensitively(i, term)
                      \/ Contains(OrderId(i), toLowerCase(Chars(term)))
    IN SearchAnswered => SearchedSlice(matches)

\* a searched page with fewer rows than the limit although a record after
\* the page's slice matches the term
C12_Witness ==
    /\ SearchAnswered
    /\ listing.query.page = <<"1">> /\ listing.query.limit = <<"1">>
    /\ listing.rows = <<>>
    /\ Len(listing.found) >= 2
    /\ \E k \in 2..Len(listing.found) :
           MatchesInsensitively(listing.found[k], listing.query.search[1])

\* the page or limit a request asks for, where a missing or invalid (not a
\* number, zero or negative) parameter stands for the default
FallbackParam(x, default) ==
    IF PositiveParam(x, default) > 0 THEN PositiveParam(x, default) ELSE default

\* C13: in getAllProducts, getProductsByCategory and getAllPayments a page
\* or limit parameter that is missing, not a number, zero or negative is
\* replaced by its default (page 1; limit 20 for products, 10 for payments):
\* the request is answered without an error, for the page and the limit so
\* obtained, with a finite totalPages.
C13_InvalidFallsBack ==
    LET page == FallbackParam(listing.query.page, 1)
        limit == FallbackParam(listing.query.limit,
                               IF listing.op = "getAllPayments" THEN 10 ELSE 20)
        total == Len(listing.found)
    IN ListingAnswered =>
          /\ listing.code = 200
          /\ listing.currentPage = Num(page)
          /\ listing.totalPages.k = "int"
          /\ listing.totalPages.v * limit >= total
          /\ (listing.totalPages.v - 1) * limit < total
          /\ listing.hasNext = (page < listing.totalPages.v)
          /\ listing.hasPrev = (page > 1)
          /\ Len(listing.rows) <= limit

====
